---- MODULE Spec2Model ----
(***************************************************************************)
(* A model of src/src/concurrency.rs: the worker pool of                   *)
(* practical_patterns, the shared counter of arc_mutex, the lock ordering  *)
(* example of deadlock_prevention and the chunked sum of squares of        *)
(* parallel_computation.  Each example is a state machine of its own; a    *)
(* specification runs one example and leaves the others' variables in      *)
(* their constructed state.                                                *)
(***************************************************************************)
EXTENDS Integers, Sequences, FiniteSets, TLC

\* ------------------------------------------------------------------------
\* Program constants
\* ------------------------------------------------------------------------

\* for id in 0..3
NumWorkers == 3
\* for i in 1..=9
NumJobs == 9

\* for i in 0..10 (arc_mutex and its test)
NumThreads == 10
\* let data: Vec<i32> = (1..=100).collect()
DataLen == 100
\* let chunk_size = 25
chunk_size == 25

\* The longest a thread::sleep is seen to last, in scheduler ticks.
MaxDelay == 2

\* A backlog already buffered when a closed channel is handed to the workers
\* (the closed-channel scenario only).
MaxBacklog == 2

\* The largest value tried for what a Mutex holds
MaxValue == 10

Workers == 0 .. (NumWorkers - 1)
Jobs == 1 .. NumJobs
Threads == 0 .. (NumThreads - 1)
LockThreads == 1 .. 2
NoOne == -1

\* Result<i32, RecvError> as stored in `job`, plus the value before the
\* first recv.
NoJob == [tag |-> "None", num |-> 0]
Ok(n) == [tag |-> "Ok", num |-> n]
Err == [tag |-> "Err", num |-> 0]

\* ------------------------------------------------------------------------
\* State
\* ------------------------------------------------------------------------
VARIABLES
    \* practical_patterns, pattern 1
    mainPc,      \* where the main thread is: spawn, send, drop, join, done
    nworkers,    \* workers.len(): handles pushed so far
    sent,        \* the last i sent by the send loop
    tx,          \* TRUE while the Sender is alive
    chan,        \* the channel's buffer, head first
    rxLock,      \* the thread holding the Mutex around rx, or NoOne
    wpc,         \* each worker's position in its closure
    job,         \* each worker's `job`
    processed,   \* per job, how often a worker ran the Ok arm on it
    dequeued,    \* every value recv returned in an Ok, in order
    njoined,     \* handles joined so far
    backlog,     \* history: chan's length when the Sender was dropped, -1 before
    rxRefs,      \* the strong count of the Arc around the receiver
    \* arc_mutex
    arcPc,       \* where the main thread is: spawn, join, read, done
    nhandles,    \* handles.len()
    counter,     \* the i32 inside the Mutex
    counterLock, \* the thread holding the counter's Mutex, or NoOne
    tpc,         \* each thread's position in its closure
    num,         \* each thread's view of *num while it computes *num += 1
    narcJoined,  \* handles joined so far
    finalValue,  \* what the main thread reads at the end, -1 before
    poisoned,    \* TRUE once a thread has panicked holding the counter's Mutex
    \* deadlock_prevention
    dlPc,        \* where the main thread is: spawn1, spawn2, join1, join2, done
    lock1,       \* the thread holding lock1, or NoOne
    lock2,       \* the thread holding lock2, or NoOne
    lpc,         \* each thread's position in its closure
    slept,       \* ticks each thread's sleep has lasted
    \* parallel_computation
    parPc,       \* where the main thread is: spawn, join, done
    nchunks,     \* chunks handed to a thread so far
    chunk,       \* each thread's `chunk`: the part of data it copied
    cpc,         \* each thread's position: idle, run, done
    pos,         \* how many elements of its chunk a thread has summed
    acc,         \* a thread's running sum
    nparJoined,  \* handles joined so far
    total,       \* the running sum of the joined results
    \* channel_multiple_producers
    mpPc,        \* where the main thread is: clone, spawn1, spawn2, recv, done
    senders,     \* per Sender handle (tx1, tx), TRUE while it is alive
    mpChan,      \* the channel's buffer, head first
    ppc,         \* each producer's position in its closure
    nvals,       \* how many of its vals a producer has sent
    pslept,      \* ticks each producer's sleep has lasted
    received,    \* what the main thread's loop has received, in order
    mpRx,        \* TRUE while the Receiver is alive
    \* practical_patterns, pattern 2
    fanPc,       \* where the main thread is: spawn, drop, collect, done
    fanSpawned,  \* the next i of the spawning loop
    fanTx,       \* TRUE while the main thread's Sender is alive
    fanClone,    \* per task, TRUE while its clone of the Sender is alive
    fpc,         \* each task's position in its closure
    fanResult,   \* each task's `result`
    fanChan,     \* the channel's buffer, head first
    results,     \* what collect() has gathered so far
    \* scoped_threads_concept
    scPc,        \* where the main thread is: spawn1, spawn2, wait, push, done
    scData,      \* `data`
    running,     \* the scope's count of threads still running
    stdoutLock,  \* the thread holding the lock of stdout, or NoOne
    rpc,         \* each scoped thread's position in its closure
    seenLen,     \* the length each scoped thread read, -1 before
    seen,        \* the elements each scoped thread has read so far
    printed,     \* the data the main thread prints at the end
    \* channel_multiple_messages
    mmPc,        \* where the main thread is: spawn, recv, done
    mmTx,        \* TRUE while the Sender is alive
    mmChan,      \* the channel's buffer, head first
    mmPpc,       \* the producer's position in its closure
    mmSent,      \* how many of its vals the producer has sent
    mmSlept,     \* ticks the producer's sleep has lasted
    mmReceived,  \* what the main thread's loop has received, in order
    \* thread_pool_concept
    tpPc,        \* where the main thread is: spawn, join, done
    tpHandles,   \* handles collected so far
    tpw,         \* each thread's position in its closure
    tpSlept,     \* ticks each thread's sleep has lasted
    tpRet,       \* the value each thread returned, NoValue before
    tpResults,   \* `results` as collected so far
    tpFinished,  \* history: the threads in the order they finished
    \* mutex_basics and tests::test_mutex
    mxPc,        \* where the thread is: new, lock, store, drop, lock2, read, done
    mxInitial,   \* the value given to Mutex::new, NoValue before
    mxWritten,   \* the value the block assigns to *num
    mxValue,     \* the value inside the Mutex
    mxLock,      \* the thread holding the Mutex, or NoOne
    mxRead       \* the value read under the second lock, NoValue before

poolVars == <<mainPc, nworkers, sent, tx, chan, rxLock, wpc, job, processed,
              dequeued, njoined, backlog, rxRefs>>

arcVars == <<arcPc, nhandles, counter, counterLock, tpc, num, narcJoined,
             finalValue, poisoned>>

dlVars == <<dlPc, lock1, lock2, lpc, slept>>

parVars == <<parPc, nchunks, chunk, cpc, pos, acc, nparJoined, total>>

mpVars == <<mpPc, senders, mpChan, ppc, nvals, pslept, received, mpRx>>

fanVars == <<fanPc, fanSpawned, fanTx, fanClone, fpc, fanResult, fanChan,
             results>>

scVars == <<scPc, scData, running, stdoutLock, rpc, seenLen, seen, printed>>

mmVars == <<mmPc, mmTx, mmChan, mmPpc, mmSent, mmSlept, mmReceived>>

tpVars == <<tpPc, tpHandles, tpw, tpSlept, tpRet, tpResults, tpFinished>>

mxVars == <<mxPc, mxInitial, mxWritten, mxValue, mxLock, mxRead>>

\* The examples added last, which the frames below leave alone together.
lateVars == <<mmVars, tpVars, mxVars>>

vars == <<poolVars, arcVars, dlVars, parVars, mpVars, fanVars, scVars,
          lateVars>>

\* What a step of one example leaves alone: the other examples.
PoolOnly ==
    UNCHANGED <<arcVars, dlVars, parVars, mpVars, fanVars, scVars,
                lateVars>>
ArcOnly ==
    UNCHANGED <<poolVars, dlVars, parVars, mpVars, fanVars, scVars,
                lateVars>>
DlOnly ==
    UNCHANGED <<poolVars, arcVars, parVars, mpVars, fanVars, scVars,
                lateVars>>
ParOnly ==
    UNCHANGED <<poolVars, arcVars, dlVars, mpVars, fanVars, scVars,
                lateVars>>
MpOnly ==
    UNCHANGED <<poolVars, arcVars, dlVars, parVars, fanVars, scVars,
                lateVars>>
FanOnly ==
    UNCHANGED <<poolVars, arcVars, dlVars, parVars, mpVars, scVars,
                lateVars>>
ScOnly ==
    UNCHANGED <<poolVars, arcVars, dlVars, parVars, mpVars, fanVars,
                lateVars>>
EarlyOnly ==
    UNCHANGED <<poolVars, arcVars, dlVars, parVars, mpVars, fanVars, scVars>>
MmOnly == EarlyOnly /\ UNCHANGED <<tpVars, mxVars>>
TpOnly == EarlyOnly /\ UNCHANGED <<mmVars, mxVars>>
MxOnly == EarlyOnly /\ UNCHANGED <<mmVars, tpVars>>

\* ------------------------------------------------------------------------
\* std::sync::mpsc, std::sync::Mutex and JoinHandle, as the examples use them
\* ------------------------------------------------------------------------

\* A send that pushes at the head instead of the tail.
ChanSendFront(q, v) == <<v>> \o q

\* Sender::send on an unbounded channel: appends at the tail.
ChanSend(q, v) == Append(q, v)

\* A send that does not notice that the Receiver is gone.
SendIgnoresHangup(rxAlive) == FALSE

\* Sender::send gives Err(SendError) once the Receiver has been dropped.
SendFails(rxAlive) == ~rxAlive

\* A recv that a disconnect does not wake: it waits for a value for ever.
RecvReadyNoWake(q, alive) == q # <<>>

\* A recv that gives up on an empty buffer instead of waiting.
RecvReadyTimeout(q, alive) == TRUE

\* Receiver::recv can return: a value is buffered, or every Sender is gone.
RecvReady(q, alive) == q # <<>> \/ ~alive

\* A recv that reports the disconnect before the buffer is drained.
RecvResultEager(q, alive) == IF ~alive THEN Err ELSE Ok(Head(q))

\* What Receiver::recv returns once it can: the head while anything is
\* buffered, Err(RecvError) only for an empty disconnected channel.
RecvResult(q, alive) == IF q # <<>> THEN Ok(Head(q)) ELSE Err

\* A recv that returns the head and leaves it in the buffer.
RecvRestPeek(q) == q

\* The buffer after that recv.
RecvRest(q) == IF q # <<>> THEN Tail(q) ELSE q

\* A join that does not wait for the thread.
JoinReturnsEarly(pc) == TRUE

\* JoinHandle::join returns once the thread has finished, by returning
\* from its closure or by panicking.
JoinReturns(pc) == pc \in {"done", "panicked"}

\* join() gives Err for a thread that panicked, and unwrap() panics on it.
JoinPanics(pc) == pc = "panicked"

\* A lock() that does not wait for the holder.
CanLockAlways(holder) == TRUE

\* Mutex::lock returns only while nobody holds the mutex.
CanLock(holder) == holder = NoOne

\* A lock() whose result is taken without looking at the poison flag.
LockIgnoresPoison(p) == FALSE

\* Mutex::lock returns Err(PoisonError) once the mutex is poisoned.
LockFails(p) == p

\* ------------------------------------------------------------------------
\* practical_patterns, pattern 1: the worker pool
\* ------------------------------------------------------------------------

PoolInit ==
    /\ mainPc = "spawn"
    /\ nworkers = 0
    /\ sent = 0
    /\ tx = TRUE
    /\ chan = <<>>
    /\ rxLock = NoOne
    /\ wpc = [w \in Workers |-> "idle"]
    /\ job = [w \in Workers |-> NoJob]
    /\ processed = [j \in Jobs |-> 0]
    /\ dequeued = <<>>
    /\ njoined = 0
    /\ backlog = -1
    /\ rxRefs = 1

\* One turn of the spawn loop, Arc::clone(&rx) included; `after` is what
\* follows the loop.
SpawnThen(after) ==
    /\ mainPc = "spawn"
    /\ wpc' = [wpc EXCEPT ![nworkers] = "lock"]
    /\ nworkers' = nworkers + 1
    /\ rxRefs' = rxRefs + 1
    /\ mainPc' = IF nworkers + 1 = NumWorkers THEN after ELSE "spawn"
    /\ PoolOnly
    /\ UNCHANGED <<sent, tx, chan, rxLock, job, processed, dequeued, njoined,
                   backlog>>

\* for id in 0..3 { ... thread::spawn(...); workers.push(worker); }
Spawn == SpawnThen("send")

\* A Receiver taken to live only while a worker holds an Arc to it.
RxAliveInWorkers(refs) == refs > 1

\* The Receiver lives while an Arc to it does.
RxAlive(refs) == refs > 0

\* for i in 1..=9 { tx.send(i).unwrap(); }: unwrap() panics if the send
\* fails
Send ==
    /\ mainPc = "send"
    /\ sent < NumJobs
    /\ IF SendFails(RxAlive(rxRefs))
       THEN /\ chan' = chan
            /\ sent' = sent
            /\ mainPc' = "panicked"
       ELSE /\ chan' = ChanSend(chan, sent + 1)
            /\ sent' = sent + 1
            /\ mainPc' = IF sent + 1 = NumJobs THEN "drop" ELSE "send"
    /\ PoolOnly
    /\ UNCHANGED <<nworkers, tx, rxLock, wpc, job, processed, dequeued, njoined,
                   backlog, rxRefs>>

\* drop(tx)
DropTx ==
    /\ mainPc = "drop"
    /\ tx' = FALSE
    /\ backlog' = Len(chan)
    /\ mainPc' = "join"
    /\ PoolOnly
    /\ UNCHANGED <<nworkers, sent, chan, rxLock, wpc, job, processed, dequeued,
                   njoined, rxRefs>>

\* for worker in workers { worker.join().unwrap(); }
Join ==
    /\ mainPc = "join"
    /\ JoinReturns(wpc[njoined])
    /\ njoined' = IF JoinPanics(wpc[njoined]) THEN njoined ELSE njoined + 1
    /\ mainPc' = IF JoinPanics(wpc[njoined]) THEN "panicked"
                 ELSE IF njoined + 1 = NumWorkers THEN "done" ELSE "join"
    /\ PoolOnly
    /\ UNCHANGED <<nworkers, sent, tx, chan, rxLock, wpc, job, processed,
                   dequeued, backlog, rxRefs>>

\* rx.lock().unwrap(): the guard is a temporary of the `let job` statement
Lock(w) ==
    /\ wpc[w] = "lock"
    /\ CanLock(rxLock)
    /\ rxLock' = w
    /\ wpc' = [wpc EXCEPT ![w] = "recv"]
    /\ PoolOnly
    /\ UNCHANGED <<mainPc, nworkers, sent, tx, chan, job, processed, dequeued,
                   njoined, backlog, rxRefs>>

\* .recv(), called through the guard
Recv(w) ==
    /\ wpc[w] = "recv"
    /\ RecvReady(chan, tx)
    /\ job' = [job EXCEPT ![w] = RecvResult(chan, tx)]
    /\ chan' = RecvRest(chan)
    /\ dequeued' = IF RecvResult(chan, tx).tag = "Ok"
                   THEN Append(dequeued, RecvResult(chan, tx).num)
                   ELSE dequeued
    /\ wpc' = [wpc EXCEPT ![w] = "unlock"]
    /\ PoolOnly
    /\ UNCHANGED <<mainPc, nworkers, sent, tx, rxLock, processed, njoined,
                   backlog, rxRefs>>

\* A guard bound to a name that outlives the statement: the mutex stays held.
GuardKept(holder) == holder

\* The mutex once the guard of `rx.lock().unwrap()` is dropped: free.
GuardDropped(holder) == NoOne

\* the `;` of the `let job` statement: the temporary guard is dropped
Unlock(w) ==
    /\ wpc[w] = "unlock"
    /\ rxLock' = GuardDropped(rxLock)
    /\ wpc' = [wpc EXCEPT ![w] = "match"]
    /\ PoolOnly
    /\ UNCHANGED <<mainPc, nworkers, sent, tx, chan, job, processed, dequeued,
                   njoined, backlog, rxRefs>>

\* A match whose Err arm starts the loop over instead of leaving it.
MatchArmContinue(j) == IF j.tag = "Ok" THEN "process" ELSE "lock"

\* The arm `match job` takes: Ok(num) => the body, Err(_) => break.
MatchArm(j) == IF j.tag = "Ok" THEN "process" ELSE "done"

\* match job { Ok(num) => ..., Err(_) => break }; after the break the
\* closure returns and drops its Arc to the receiver
Match(w) ==
    /\ wpc[w] = "match"
    /\ wpc' = [wpc EXCEPT ![w] = MatchArm(job[w])]
    /\ rxRefs' = IF MatchArm(job[w]) = "done" THEN rxRefs - 1 ELSE rxRefs
    /\ PoolOnly
    /\ UNCHANGED <<mainPc, nworkers, sent, tx, chan, rxLock, job, processed,
                   dequeued, njoined, backlog>>

\* the Ok arm: println!, thread::sleep; `job` ends with the loop body and
\* the loop starts over
Process(w) ==
    /\ wpc[w] = "process"
    /\ processed' = [processed EXCEPT ![job[w].num] = @ + 1]
    /\ job' = [job EXCEPT ![w] = NoJob]
    /\ wpc' = [wpc EXCEPT ![w] = "lock"]
    /\ PoolOnly
    /\ UNCHANGED <<mainPc, nworkers, sent, tx, chan, rxLock, dequeued, njoined,
                   backlog, rxRefs>>

\* println! in the Ok arm panics (stdout cannot be written): the thread
\* unwinds and ends, dropping its Arc to the receiver; `job` keeps the job
\* it ended with
HandlerPanic(w) ==
    /\ wpc[w] = "process"
    /\ wpc' = [wpc EXCEPT ![w] = "panicked"]
    /\ rxRefs' = rxRefs - 1
    /\ PoolOnly
    /\ UNCHANGED <<mainPc, nworkers, sent, tx, chan, rxLock, job, processed,
                   dequeued, njoined, backlog>>

PoolMain == Spawn \/ Send \/ DropTx \/ Join

Worker(w) == Lock(w) \/ Recv(w) \/ Unlock(w) \/ Match(w) \/ Process(w)

PoolNext == PoolMain \/ \E w \in Workers : Worker(w)

\* The pool when println! may fail.
PanicNext == PoolNext \/ \E w \in Workers : HandlerPanic(w)

\* ------------------------------------------------------------------------
\* The worker loop on a channel closed before the workers start
\* ------------------------------------------------------------------------

\* The first n jobs, in send order.
SendOrder(n) == [i \in 1 .. n |-> i]

\* The Sender sent k jobs and was dropped before any worker was spawned.
ClosedInit ==
    /\ mainPc = "spawn"
    /\ nworkers = 0
    /\ sent \in 0 .. MaxBacklog
    /\ tx = FALSE
    /\ chan = SendOrder(sent)
    /\ rxLock = NoOne
    /\ wpc = [w \in Workers |-> "idle"]
    /\ job = [w \in Workers |-> NoJob]
    /\ processed = [j \in Jobs |-> 0]
    /\ dequeued = <<>>
    /\ njoined = 0
    /\ backlog = sent
    /\ rxRefs = 1

\* the spawn loop, followed at once by the join loop
SpawnOnClosed == SpawnThen("join")

ClosedNext == SpawnOnClosed \/ Join \/ \E w \in Workers : Worker(w)

\* ------------------------------------------------------------------------
\* arc_mutex: ten threads, one Arc<Mutex<i32>>
\* ------------------------------------------------------------------------

ArcInit ==
    /\ arcPc = "spawn"
    /\ nhandles = 0
    /\ counter = 0
    /\ counterLock = NoOne
    /\ tpc = [t \in Threads |-> "idle"]
    /\ num = [t \in Threads |-> 0]
    /\ narcJoined = 0
    /\ finalValue = -1
    /\ poisoned = FALSE

\* for i in 0..10 { ... thread::spawn(...); handles.push(handle); }
ArcSpawn ==
    /\ arcPc = "spawn"
    /\ tpc' = [tpc EXCEPT ![nhandles] = "lock"]
    /\ nhandles' = nhandles + 1
    /\ arcPc' = IF nhandles + 1 = NumThreads THEN "join" ELSE "spawn"
    /\ ArcOnly
    /\ UNCHANGED <<counter, counterLock, num, narcJoined, finalValue, poisoned>>

\* for handle in handles { handle.join().unwrap(); }
ArcJoin ==
    /\ arcPc = "join"
    /\ JoinReturns(tpc[narcJoined])
    /\ narcJoined' = IF JoinPanics(tpc[narcJoined]) THEN narcJoined
                     ELSE narcJoined + 1
    /\ arcPc' = IF JoinPanics(tpc[narcJoined]) THEN "panicked"
                ELSE IF narcJoined + 1 = NumThreads THEN "read" ELSE "join"
    /\ ArcOnly
    /\ UNCHANGED <<nhandles, counter, counterLock, tpc, num, finalValue, poisoned>>

\* *counter.lock().unwrap(), read by the final println! / assert_eq!
ArcRead ==
    /\ arcPc = "read"
    /\ CanLock(counterLock)
    /\ finalValue' = IF LockFails(poisoned) THEN finalValue ELSE counter
    /\ arcPc' = IF LockFails(poisoned) THEN "panicked" ELSE "done"
    /\ ArcOnly
    /\ UNCHANGED <<nhandles, counter, counterLock, tpc, num, narcJoined, poisoned>>

\* let mut num = counter.lock().unwrap(); on a poisoned mutex lock() gives
\* Err, unwrap() panics and the guard inside the Err is dropped
ArcLock(t) ==
    /\ tpc[t] = "lock"
    /\ CanLock(counterLock)
    /\ counterLock' = IF LockFails(poisoned) THEN counterLock ELSE t
    /\ tpc' = [tpc EXCEPT ![t] = IF LockFails(poisoned) THEN "panicked"
                                 ELSE "load"]
    /\ ArcOnly
    /\ UNCHANGED <<arcPc, nhandles, counter, num, narcJoined, finalValue, poisoned>>

\* *num += 1, the read of *num
ArcLoad(t) ==
    /\ tpc[t] = "load"
    /\ num' = [num EXCEPT ![t] = counter]
    /\ tpc' = [tpc EXCEPT ![t] = "store"]
    /\ ArcOnly
    /\ UNCHANGED <<arcPc, nhandles, counter, counterLock, narcJoined, finalValue, poisoned>>

\* The value `*num += 1` writes back, from the value it read.
Incremented(v) == v + 1

\* *num += 1, the write of *num
ArcStore(t) ==
    /\ tpc[t] = "store"
    /\ counter' = Incremented(num[t])
    /\ tpc' = [tpc EXCEPT ![t] = "unlock"]
    /\ ArcOnly
    /\ UNCHANGED <<arcPc, nhandles, counterLock, num, narcJoined, finalValue, poisoned>>

\* the println!, then the end of the closure: the guard `num` is dropped
ArcUnlock(t) ==
    /\ tpc[t] = "unlock"
    /\ counterLock' = GuardDropped(counterLock)
    /\ num' = [num EXCEPT ![t] = 0]
    /\ tpc' = [tpc EXCEPT ![t] = "done"]
    /\ ArcOnly
    /\ UNCHANGED <<arcPc, nhandles, counter, narcJoined, finalValue, poisoned>>

\* println! panics (stdout cannot be written) while the guard `num` is
\* alive: unwinding drops the guard, which poisons the mutex
ArcPrintFails(t) ==
    /\ tpc[t] = "unlock"
    /\ poisoned' = TRUE
    /\ counterLock' = GuardDropped(counterLock)
    /\ num' = [num EXCEPT ![t] = 0]
    /\ tpc' = [tpc EXCEPT ![t] = "panicked"]
    /\ ArcOnly
    /\ UNCHANGED <<arcPc, nhandles, counter, narcJoined, finalValue>>

ArcMain == ArcSpawn \/ ArcJoin \/ ArcRead

ArcThread(t) == ArcLock(t) \/ ArcLoad(t) \/ ArcStore(t) \/ ArcUnlock(t)

ArcNext == ArcMain \/ \E t \in Threads : ArcThread(t)

\* arc_mutex when println! may fail.
ArcPanicNext == ArcNext \/ \E t \in Threads : ArcPrintFails(t)

\* ------------------------------------------------------------------------
\* deadlock_prevention: two threads, lock1 then lock2
\* ------------------------------------------------------------------------

DlInit ==
    /\ dlPc = "spawn1"
    /\ lock1 = NoOne
    /\ lock2 = NoOne
    /\ lpc = [t \in LockThreads |-> "idle"]
    /\ slept = [t \in LockThreads |-> 0]

\* let handle1 = thread::spawn(...)
DlSpawn1 ==
    /\ dlPc = "spawn1"
    /\ lpc' = [lpc EXCEPT ![1] = "first"]
    /\ dlPc' = "spawn2"
    /\ DlOnly
    /\ UNCHANGED <<lock1, lock2, slept>>

\* let handle2 = thread::spawn(...)
DlSpawn2 ==
    /\ dlPc = "spawn2"
    /\ lpc' = [lpc EXCEPT ![2] = "first"]
    /\ dlPc' = "join1"
    /\ DlOnly
    /\ UNCHANGED <<lock1, lock2, slept>>

\* handle1.join().unwrap()
DlJoin1 ==
    /\ dlPc = "join1"
    /\ JoinReturns(lpc[1])
    /\ dlPc' = "join2"
    /\ DlOnly
    /\ UNCHANGED <<lock1, lock2, lpc, slept>>

\* handle2.join().unwrap()
DlJoin2 ==
    /\ dlPc = "join2"
    /\ JoinReturns(lpc[2])
    /\ dlPc' = "done"
    /\ DlOnly
    /\ UNCHANGED <<lock1, lock2, lpc, slept>>

\* Thread 2 taking the locks in the opposite order.
LockOrderOpposed(t) == IF t = 2 THEN <<2, 1>> ELSE <<1, 2>>

\* The locks a thread's closure takes, in order: lock1 then lock2 in both.
LockOrder(t) == <<1, 2>>

\* The lock a thread's first lock() statement names.
FirstLock(t) == LockOrder(t)[1]

\* The lock a thread's second lock() statement names.
SecondLock(t) == LockOrder(t)[2]

\* Who holds lock n.
Holder(n) == IF n = 1 THEN lock1 ELSE lock2

\* let _l1 = lock1.lock().unwrap()
DlFirst(t) ==
    /\ lpc[t] = "first"
    /\ CanLock(Holder(FirstLock(t)))
    /\ lock1' = IF FirstLock(t) = 1 THEN t ELSE lock1
    /\ lock2' = IF FirstLock(t) = 2 THEN t ELSE lock2
    /\ lpc' = [lpc EXCEPT ![t] = "sleep"]
    /\ DlOnly
    /\ UNCHANGED <<dlPc, slept>>

\* thread::sleep(Duration::from_millis(10)), one more tick asleep
DlTick(t) ==
    /\ lpc[t] = "sleep"
    /\ slept[t] < MaxDelay
    /\ slept' = [slept EXCEPT ![t] = @ + 1]
    /\ DlOnly
    /\ UNCHANGED <<dlPc, lock1, lock2, lpc>>

\* thread::sleep returns
DlWake(t) ==
    /\ lpc[t] = "sleep"
    /\ lpc' = [lpc EXCEPT ![t] = "second"]
    /\ DlOnly
    /\ UNCHANGED <<dlPc, lock1, lock2, slept>>

\* let _l2 = lock2.lock().unwrap()
DlSecond(t) ==
    /\ lpc[t] = "second"
    /\ CanLock(Holder(SecondLock(t)))
    /\ lock1' = IF SecondLock(t) = 1 THEN t ELSE lock1
    /\ lock2' = IF SecondLock(t) = 2 THEN t ELSE lock2
    /\ lpc' = [lpc EXCEPT ![t] = "print"]
    /\ DlOnly
    /\ UNCHANGED <<dlPc, slept>>

\* println!("  Thread n acquired both locks")
DlPrint(t) ==
    /\ lpc[t] = "print"
    /\ lpc' = [lpc EXCEPT ![t] = "drop2"]
    /\ DlOnly
    /\ UNCHANGED <<dlPc, lock1, lock2, slept>>

\* the end of the closure: _l2, declared last, is dropped first
DlDrop2(t) ==
    /\ lpc[t] = "drop2"
    /\ lock1' = IF SecondLock(t) = 1 THEN GuardDropped(lock1) ELSE lock1
    /\ lock2' = IF SecondLock(t) = 2 THEN GuardDropped(lock2) ELSE lock2
    /\ lpc' = [lpc EXCEPT ![t] = "drop1"]
    /\ DlOnly
    /\ UNCHANGED <<dlPc, slept>>

\* then _l1 is dropped and the thread ends
DlDrop1(t) ==
    /\ lpc[t] = "drop1"
    /\ lock1' = IF FirstLock(t) = 1 THEN GuardDropped(lock1) ELSE lock1
    /\ lock2' = IF FirstLock(t) = 2 THEN GuardDropped(lock2) ELSE lock2
    /\ lpc' = [lpc EXCEPT ![t] = "done"]
    /\ DlOnly
    /\ UNCHANGED <<dlPc, slept>>

DlMain == DlSpawn1 \/ DlSpawn2 \/ DlJoin1 \/ DlJoin2

DlThread(t) ==
    \/ DlFirst(t) \/ DlTick(t) \/ DlWake(t) \/ DlSecond(t)
    \/ DlPrint(t) \/ DlDrop2(t) \/ DlDrop1(t)

DlNext == DlMain \/ \E t \in LockThreads : DlThread(t)

\* ------------------------------------------------------------------------
\* parallel_computation: sum of squares of 1..100 in chunks of 25
\* ------------------------------------------------------------------------

\* (1..=100).collect()
data == [i \in 1 .. DataLen |-> i]

\* slice::chunks: how many chunks a slice of n elements has.
NumChunks(n, size) == (n + size - 1) \div size

\* Chunks that stop one element short of the next chunk.
ChunkShort(n, size, k) ==
    [first |-> (k - 1) * size + 1,
     last |-> IF k * size < n THEN k * size - 1 ELSE n]

\* slice::chunks: the k-th chunk (from 1) of a slice of n elements, as the
\* positions of its first and last element; the last chunk may be shorter.
Chunk(n, size, k) ==
    [first |-> (k - 1) * size + 1,
     last |-> IF k * size < n THEN k * size ELSE n]

\* chunk.len()
ChunkLen(c) == c.last - c.first + 1

\* chunk[i], from 0: to_vec copies the elements of data the slice covers
ChunkAt(c, i) == data[c.first + i]

Tasks == 1 .. NumChunks(DataLen, chunk_size)

\* i16::MAX, the largest value of a narrower element type.
I16Max == 32768 - 1

\* i32::MAX and i32::MIN
I32Max == 2147483647
I32Min == -2147483647 - 1

\* Sum::sum's step for i32: a + b in two's complement (a build without
\* overflow checks wraps), computed without leaving the 32-bit range.
Add(a, b) ==
    IF b > 0 /\ a > I32Max - b THEN (a - I32Max - 1) + (b + I32Min)
    ELSE IF b < 0 /\ a < I32Min - b THEN (a - I32Min) + (b + I32Max + 1)
    ELSE a + b

\* a * b in two's complement for b >= 0, by doubling.
RECURSIVE Mul(_, _)
Mul(a, b) ==
    IF b = 0 THEN 0
    ELSE LET h == Mul(a, b \div 2)
             d == Add(h, h)
         IN  IF b % 2 = 1 THEN Add(d, a) ELSE d

\* |x| x * x
Square(x) ==
    IF x = I32Min THEN 0
    ELSE LET m == IF x < 0 THEN 0 - x ELSE x IN Mul(m, m)

ParInit ==
    /\ parPc = "spawn"
    /\ nchunks = 0
    /\ chunk = [t \in Tasks |-> [first |-> 1, last |-> 0]]
    /\ cpc = [t \in Tasks |-> "idle"]
    /\ pos = [t \in Tasks |-> 0]
    /\ acc = [t \in Tasks |-> 0]
    /\ nparJoined = 0
    /\ total = 0

\* data.chunks(chunk_size).map(|chunk| { let chunk = chunk.to_vec();
\* thread::spawn(...) }).collect(): one thread per chunk
ParSpawn ==
    /\ parPc = "spawn"
    /\ chunk' = [chunk EXCEPT ![nchunks + 1] = Chunk(DataLen, chunk_size, nchunks + 1)]
    /\ cpc' = [cpc EXCEPT ![nchunks + 1] = "run"]
    /\ nchunks' = nchunks + 1
    /\ parPc' = IF nchunks + 1 = NumChunks(DataLen, chunk_size)
                THEN "join" ELSE "spawn"
    /\ ParOnly
    /\ UNCHANGED <<pos, acc, nparJoined, total>>

\* chunk.iter().map(|x| x * x).sum::<i32>(), one element
ParStep(t) ==
    /\ cpc[t] = "run"
    /\ pos[t] < ChunkLen(chunk[t])
    /\ acc' = [acc EXCEPT ![t] = Add(@, Square(ChunkAt(chunk[t], pos[t])))]
    /\ pos' = [pos EXCEPT ![t] = @ + 1]
    /\ ParOnly
    /\ UNCHANGED <<parPc, nchunks, chunk, cpc, nparJoined, total>>

\* the iterator is exhausted: the closure returns the sum
ParReturn(t) ==
    /\ cpc[t] = "run"
    /\ pos[t] = ChunkLen(chunk[t])
    /\ cpc' = [cpc EXCEPT ![t] = "done"]
    /\ ParOnly
    /\ UNCHANGED <<parPc, nchunks, chunk, pos, acc, nparJoined, total>>

\* handles.into_iter().map(|h| h.join().unwrap()).sum(), one handle
ParJoin ==
    /\ parPc = "join"
    /\ JoinReturns(cpc[nparJoined + 1])
    /\ total' = Add(total, acc[nparJoined + 1])
    /\ nparJoined' = nparJoined + 1
    /\ parPc' = IF nparJoined + 1 = NumChunks(DataLen, chunk_size)
                THEN "done" ELSE "join"
    /\ ParOnly
    /\ UNCHANGED <<nchunks, chunk, cpc, pos, acc>>

ParMain == ParSpawn \/ ParJoin

ParTask(t) == ParStep(t) \/ ParReturn(t)

ParNext == ParMain \/ \E t \in Tasks : ParTask(t)

\* ------------------------------------------------------------------------
\* channel_multiple_producers: two threads send two strings each
\* ------------------------------------------------------------------------

Producers == 1 .. 2

\* Each thread's `vals`.
vals(p) ==
    IF p = 1 THEN <<"thread 1: hi", "thread 1: more">>
    ELSE <<"thread 2: hello", "thread 2: world">>

\* The Sender each thread's closure captures: tx1 (the clone) and tx.
Handle(p) == IF p = 1 THEN "tx1" ELSE "tx"

\* rx.iter().take(4)
Take == 4

SendersAlive == \E h \in DOMAIN senders : senders[h]

MpInit ==
    /\ mpPc = "clone"
    /\ senders = [h \in {"tx1", "tx"} |-> h = "tx"]
    /\ mpChan = <<>>
    /\ ppc = [p \in Producers |-> "idle"]
    /\ nvals = [p \in Producers |-> 0]
    /\ pslept = [p \in Producers |-> 0]
    /\ received = <<>>
    /\ mpRx = TRUE

\* let tx1 = tx.clone()
MpClone ==
    /\ mpPc = "clone"
    /\ senders' = [senders EXCEPT !["tx1"] = TRUE]
    /\ mpPc' = "spawn1"
    /\ MpOnly
    /\ UNCHANGED <<mpChan, ppc, nvals, pslept, received, mpRx>>

\* thread::spawn(move || ...), the first and the second
MpSpawn(p) ==
    /\ mpPc = IF p = 1 THEN "spawn1" ELSE "spawn2"
    /\ ppc' = [ppc EXCEPT ![p] = "send"]
    /\ mpPc' = IF p = 1 THEN "spawn2" ELSE "recv"
    /\ MpOnly
    /\ UNCHANGED <<senders, mpChan, nvals, pslept, received, mpRx>>

\* tx1.send(val).unwrap() / tx.send(val).unwrap(): once the Receiver is
\* gone send gives the value back in an Err, unwrap() panics and the
\* unwinding closure drops its Sender
MpSend(p) ==
    /\ ppc[p] = "send"
    /\ IF SendFails(mpRx)
       THEN /\ mpChan' = mpChan
            /\ nvals' = nvals
            /\ senders' = [senders EXCEPT ![Handle(p)] = FALSE]
            /\ ppc' = [ppc EXCEPT ![p] = "panicked"]
       ELSE /\ mpChan' = ChanSend(mpChan, vals(p)[nvals[p] + 1])
            /\ nvals' = [nvals EXCEPT ![p] = @ + 1]
            /\ senders' = senders
            /\ ppc' = [ppc EXCEPT ![p] = "sleep"]
    /\ pslept' = [pslept EXCEPT ![p] = 0]
    /\ MpOnly
    /\ UNCHANGED <<mpPc, received, mpRx>>

\* thread::sleep(Duration::from_millis(100)), one more tick asleep
MpTick(p) ==
    /\ ppc[p] = "sleep"
    /\ pslept[p] < MaxDelay
    /\ pslept' = [pslept EXCEPT ![p] = @ + 1]
    /\ MpOnly
    /\ UNCHANGED <<mpPc, senders, mpChan, ppc, nvals, received, mpRx>>

\* thread::sleep returns: the next val, or the end of the loop
MpWake(p) ==
    /\ ppc[p] = "sleep"
    /\ ppc' = [ppc EXCEPT ![p] =
                  IF nvals[p] < Len(vals(p)) THEN "send" ELSE "exit"]
    /\ MpOnly
    /\ UNCHANGED <<mpPc, senders, mpChan, nvals, pslept, received, mpRx>>

\* the closure returns and drops its Sender
MpExit(p) ==
    /\ ppc[p] = "exit"
    /\ senders' = [senders EXCEPT ![Handle(p)] = FALSE]
    /\ ppc' = [ppc EXCEPT ![p] = "done"]
    /\ MpOnly
    /\ UNCHANGED <<mpPc, mpChan, nvals, pslept, received, mpRx>>

\* What is left of the buffer once the Receiver is dropped: nothing.
Discarded(q) == <<>>

\* for received in rx.iter().take(4): one next(); the loop ends after the
\* fourth value, or when recv returns Err, and the function returns,
\* dropping rx
MpRecv ==
    /\ mpPc = "recv"
    /\ RecvReady(mpChan, SendersAlive)
    /\ IF RecvResult(mpChan, SendersAlive).tag = "Err"
       THEN received' = received /\ mpPc' = "done"
       ELSE /\ received' = Append(received,
                                  RecvResult(mpChan, SendersAlive).num)
            /\ mpPc' = IF Len(received) + 1 = Take THEN "done" ELSE "recv"
    /\ mpRx' = (mpPc' # "done")
    /\ mpChan' = IF mpPc' = "done" THEN Discarded(RecvRest(mpChan))
                 ELSE RecvRest(mpChan)
    /\ MpOnly
    /\ UNCHANGED <<senders, ppc, nvals, pslept>>

\* println!("Received: {}", received) panics (stdout cannot be written):
\* the main thread unwinds and drops rx
MpPrintFails ==
    /\ mpPc = "recv"
    /\ received # <<>>
    /\ mpPc' = "panicked"
    /\ mpRx' = FALSE
    /\ mpChan' = Discarded(mpChan)
    /\ MpOnly
    /\ UNCHANGED <<senders, ppc, nvals, pslept, received>>

MpMain == MpClone \/ (\E p \in Producers : MpSpawn(p)) \/ MpRecv

Producer(p) == MpSend(p) \/ MpTick(p) \/ MpWake(p) \/ MpExit(p)

MpNext == MpMain \/ \E p \in Producers : Producer(p)

\* channel_multiple_producers when println! may fail.
MpPanicNext == MpNext \/ MpPrintFails

\* ------------------------------------------------------------------------
\* practical_patterns, pattern 2: fan-out, fan-in
\* ------------------------------------------------------------------------

\* for i in 0..3
NumTasks == 3

FanTasks == 0 .. (NumTasks - 1)

\* A channel that counts only the Sender it was created with.
FanLiveOriginalOnly == fanTx

\* The channel is connected while any Sender, the original or a clone, lives.
FanLive == fanTx \/ \E i \in FanTasks : fanClone[i]

FanInit ==
    /\ fanPc = "spawn"
    /\ fanSpawned = 0
    /\ fanTx = TRUE
    /\ fanClone = [i \in FanTasks |-> FALSE]
    /\ fpc = [i \in FanTasks |-> "idle"]
    /\ fanResult = [i \in FanTasks |-> 0]
    /\ fanChan = <<>>
    /\ results = <<>>

\* let tx = tx.clone(); thread::spawn(move || ...), for the next i
FanSpawn ==
    /\ fanPc = "spawn"
    /\ fanClone' = [fanClone EXCEPT ![fanSpawned] = TRUE]
    /\ fpc' = [fpc EXCEPT ![fanSpawned] = "compute"]
    /\ fanSpawned' = fanSpawned + 1
    /\ fanPc' = IF fanSpawned + 1 = NumTasks THEN "drop" ELSE "spawn"
    /\ FanOnly
    /\ UNCHANGED <<fanTx, fanResult, fanChan, results>>

\* drop(tx)
FanDropTx ==
    /\ fanPc = "drop"
    /\ fanTx' = FALSE
    /\ fanPc' = "collect"
    /\ FanOnly
    /\ UNCHANGED <<fanSpawned, fanClone, fpc, fanResult, fanChan, results>>

\* rx.iter().collect(): one next() of the iterator; Err ends the collection
FanCollect ==
    /\ fanPc = "collect"
    /\ RecvReady(fanChan, FanLive)
    /\ fanChan' = RecvRest(fanChan)
    /\ IF RecvResult(fanChan, FanLive).tag = "Err"
       THEN results' = results /\ fanPc' = "done"
       ELSE /\ results' = Append(results, RecvResult(fanChan, FanLive).num)
            /\ fanPc' = "collect"
    /\ FanOnly
    /\ UNCHANGED <<fanSpawned, fanTx, fanClone, fpc, fanResult>>

\* let result = i * i
FanCompute(i) ==
    /\ fpc[i] = "compute"
    /\ fanResult' = [fanResult EXCEPT ![i] = Square(i)]
    /\ fpc' = [fpc EXCEPT ![i] = "send"]
    /\ FanOnly
    /\ UNCHANGED <<fanPc, fanSpawned, fanTx, fanClone, fanChan, results>>

\* tx.send(result).unwrap()
FanSend(i) ==
    /\ fpc[i] = "send"
    /\ fanChan' = ChanSend(fanChan, fanResult[i])
    /\ fpc' = [fpc EXCEPT ![i] = "exit"]
    /\ FanOnly
    /\ UNCHANGED <<fanPc, fanSpawned, fanTx, fanClone, fanResult, results>>

\* the closure returns and drops its clone of the Sender
FanExit(i) ==
    /\ fpc[i] = "exit"
    /\ fanClone' = [fanClone EXCEPT ![i] = FALSE]
    /\ fpc' = [fpc EXCEPT ![i] = "done"]
    /\ FanOnly
    /\ UNCHANGED <<fanPc, fanSpawned, fanTx, fanResult, fanChan, results>>

FanMain == FanSpawn \/ FanDropTx \/ FanCollect

FanTask(i) == FanCompute(i) \/ FanSend(i) \/ FanExit(i)

FanNext == FanMain \/ \E i \in FanTasks : FanTask(i)

\* ------------------------------------------------------------------------
\* scoped_threads_concept: two scoped threads read `data`
\* ------------------------------------------------------------------------

\* let mut data = vec![1, 2, 3, 4, 5]
InitialData == <<1, 2, 3, 4, 5>>

\* data.push(6)
Pushed == 6

Readers == 1 .. 2

\* The main thread, as a holder of the stdout lock.
MainThread == 0

\* A scope that returns as soon as its closure has.
ScopeReturnsEarly(n) == TRUE

\* thread::scope returns once no thread spawned in it is running.
ScopeReturns(n) == n = 0

\* Where each closure starts.  The first prints data itself: println! takes
\* the stdout lock and {:?} reads data under it.  The second evaluates
\* data.len() as an argument, before println! takes the lock.
FirstStep(r) == IF r = 1 THEN "lock" ELSE "len"

ScInit ==
    /\ scPc = "spawn1"
    /\ scData = InitialData
    /\ running = 0
    /\ stdoutLock = NoOne
    /\ rpc = [r \in Readers |-> "idle"]
    /\ seenLen = [r \in Readers |-> -1]
    /\ seen = [r \in Readers |-> <<>>]
    /\ printed = <<>>

\* s.spawn(|| ...), the first and the second; the closure given to
\* thread::scope returns after the second
ScSpawn(r) ==
    /\ scPc = IF r = 1 THEN "spawn1" ELSE "spawn2"
    /\ running' = running + 1
    /\ rpc' = [rpc EXCEPT ![r] = FirstStep(r)]
    /\ scPc' = IF r = 1 THEN "spawn2" ELSE "wait"
    /\ ScOnly
    /\ UNCHANGED <<scData, stdoutLock, seenLen, seen, printed>>

\* the end of thread::scope: wait for the threads of the scope, then panic
\* if one of them did
ScWait ==
    /\ scPc = "wait"
    /\ ScopeReturns(running)
    /\ scPc' = IF \E r \in Readers : rpc[r] = "panicked"
               THEN "panicked" ELSE "push"
    /\ ScOnly
    /\ UNCHANGED <<scData, running, stdoutLock, rpc, seenLen, seen, printed>>

\* data.push(6)
ScPush ==
    /\ scPc = "push"
    /\ scData' = Append(scData, Pushed)
    /\ scPc' = "print"
    /\ ScOnly
    /\ UNCHANGED <<running, stdoutLock, rpc, seenLen, seen, printed>>

\* println!("Data after threads: {:?}", data)
ScPrint ==
    /\ scPc = "print"
    /\ CanLock(stdoutLock)
    /\ printed' = scData
    /\ scPc' = "done"
    /\ ScOnly
    /\ UNCHANGED <<scData, running, stdoutLock, rpc, seenLen, seen>>

\* println! takes the lock of stdout
ScLock(r) ==
    /\ rpc[r] = "lock"
    /\ CanLock(stdoutLock)
    /\ stdoutLock' = r
    /\ rpc' = [rpc EXCEPT ![r] = IF r = 1 THEN "len" ELSE "write"]
    /\ ScOnly
    /\ UNCHANGED <<scPc, scData, running, seenLen, seen, printed>>

\* the thread takes the length of data: of the slice {:?} walks, or
\* data.len()
ScLen(r) ==
    /\ rpc[r] = "len"
    /\ seenLen' = [seenLen EXCEPT ![r] = Len(scData)]
    /\ rpc' = [rpc EXCEPT ![r] = IF r = 1 THEN "read" ELSE "lock"]
    /\ ScOnly
    /\ UNCHANGED <<scPc, scData, running, stdoutLock, seen, printed>>

\* {:?} formats the next element of the slice, or closes the list
ScRead(r) ==
    /\ rpc[r] = "read"
    /\ IF Len(seen[r]) < seenLen[r]
       THEN /\ seen' = [seen EXCEPT ![r] =
                           Append(@, scData[Len(seen[r]) + 1])]
            /\ rpc' = rpc
       ELSE /\ seen' = seen
            /\ rpc' = [rpc EXCEPT ![r] = "unlock"]
    /\ ScOnly
    /\ UNCHANGED <<scPc, scData, running, stdoutLock, seenLen, printed>>

\* the second thread's line is written
ScWrite(r) ==
    /\ rpc[r] = "write"
    /\ rpc' = [rpc EXCEPT ![r] = "unlock"]
    /\ ScOnly
    /\ UNCHANGED <<scPc, scData, running, stdoutLock, seenLen, seen, printed>>

\* the stdout guard is dropped
ScUnlock(r) ==
    /\ rpc[r] = "unlock"
    /\ stdoutLock' = NoOne
    /\ rpc' = [rpc EXCEPT ![r] = "return"]
    /\ ScOnly
    /\ UNCHANGED <<scPc, scData, running, seenLen, seen, printed>>

\* the write to stdout failed: println! panics and the thread unwinds
ScPrintFails(r) ==
    /\ rpc[r] = "return"
    /\ rpc' = [rpc EXCEPT ![r] = "unwind"]
    /\ ScOnly
    /\ UNCHANGED <<scPc, scData, running, stdoutLock, seenLen, seen, printed>>

\* the thread ends, by return or by panic: the scope counts one running
\* thread less
ScExit(r) ==
    /\ rpc[r] \in {"return", "unwind"}
    /\ running' = running - 1
    /\ rpc' = [rpc EXCEPT ![r] = IF rpc[r] = "return" THEN "done"
                                 ELSE "panicked"]
    /\ ScOnly
    /\ UNCHANGED <<scPc, scData, stdoutLock, seenLen, seen, printed>>

ScMain == (\E r \in Readers : ScSpawn(r)) \/ ScWait \/ ScPush \/ ScPrint

ScReader(r) ==
    \/ ScLock(r) \/ ScLen(r) \/ ScRead(r) \/ ScWrite(r) \/ ScUnlock(r)
    \/ ScPrintFails(r) \/ ScExit(r)

ScNext == ScMain \/ \E r \in Readers : ScReader(r)

\* ------------------------------------------------------------------------
\* channel_multiple_messages: one thread sends four strings
\* ------------------------------------------------------------------------

\* The thread's `vals`.
messages == <<"hi", "from", "the", "thread">>

MmInit ==
    /\ mmPc = "spawn"
    /\ mmTx = TRUE
    /\ mmChan = <<>>
    /\ mmPpc = "idle"
    /\ mmSent = 0
    /\ mmSlept = 0
    /\ mmReceived = <<>>

\* thread::spawn(move || ...)
MmSpawn ==
    /\ mmPc = "spawn"
    /\ mmPpc' = "send"
    /\ mmPc' = "recv"
    /\ MmOnly
    /\ UNCHANGED <<mmTx, mmChan, mmSent, mmSlept, mmReceived>>

\* tx.send(val).unwrap()
MmSend ==
    /\ mmPpc = "send"
    /\ mmChan' = ChanSend(mmChan, messages[mmSent + 1])
    /\ mmSent' = mmSent + 1
    /\ mmSlept' = 0
    /\ mmPpc' = "sleep"
    /\ MmOnly
    /\ UNCHANGED <<mmPc, mmTx, mmReceived>>

\* thread::sleep(Duration::from_millis(100)), one more tick asleep
MmTick ==
    /\ mmPpc = "sleep"
    /\ mmSlept < MaxDelay
    /\ mmSlept' = mmSlept + 1
    /\ MmOnly
    /\ UNCHANGED <<mmPc, mmTx, mmChan, mmPpc, mmSent, mmReceived>>

\* thread::sleep returns: the next val, or the end of the loop
MmWake ==
    /\ mmPpc = "sleep"
    /\ mmPpc' = IF mmSent < Len(messages) THEN "send" ELSE "exit"
    /\ MmOnly
    /\ UNCHANGED <<mmPc, mmTx, mmChan, mmSent, mmSlept, mmReceived>>

\* the closure returns and drops tx
MmExit ==
    /\ mmPpc = "exit"
    /\ mmTx' = FALSE
    /\ mmPpc' = "done"
    /\ MmOnly
    /\ UNCHANGED <<mmPc, mmChan, mmSent, mmSlept, mmReceived>>

\* for received in rx: one next() of the iterator; Err ends the loop
MmRecv ==
    /\ mmPc = "recv"
    /\ RecvReady(mmChan, mmTx)
    /\ mmChan' = RecvRest(mmChan)
    /\ IF RecvResult(mmChan, mmTx).tag = "Err"
       THEN mmReceived' = mmReceived /\ mmPc' = "done"
       ELSE /\ mmReceived' = Append(mmReceived, RecvResult(mmChan, mmTx).num)
            /\ mmPc' = "recv"
    /\ MmOnly
    /\ UNCHANGED <<mmTx, mmPpc, mmSent, mmSlept>>

MmMain == MmSpawn \/ MmRecv

MmProducer == MmSend \/ MmTick \/ MmWake \/ MmExit

MmNext == MmMain \/ MmProducer

\* ------------------------------------------------------------------------
\* thread_pool_concept: four threads, joined in spawn order
\* ------------------------------------------------------------------------

\* (0..4)
NumPoolThreads == 4

PoolThreads == 0 .. (NumPoolThreads - 1)

\* No value yet.
NoValue == -1

\* What join() hands over: the closure's return value once it has returned.
JoinValue(ret) == ret

TpInit ==
    /\ tpPc = "spawn"
    /\ tpHandles = 0
    /\ tpw = [i \in PoolThreads |-> "idle"]
    /\ tpSlept = [i \in PoolThreads |-> 0]
    /\ tpRet = [i \in PoolThreads |-> NoValue]
    /\ tpResults = <<>>
    /\ tpFinished = <<>>

\* (0..4).map(|i| thread::spawn(...)).collect(), the next i
TpSpawn ==
    /\ tpPc = "spawn"
    /\ tpw' = [tpw EXCEPT ![tpHandles] = "print"]
    /\ tpHandles' = tpHandles + 1
    /\ tpPc' = IF tpHandles + 1 = NumPoolThreads THEN "join" ELSE "spawn"
    /\ TpOnly
    /\ UNCHANGED <<tpSlept, tpRet, tpResults, tpFinished>>

\* handles.into_iter().map(|h| h.join().unwrap()).collect(), the next handle
TpJoin ==
    /\ tpPc = "join"
    /\ JoinReturns(tpw[Len(tpResults)])
    /\ tpResults' = Append(tpResults, JoinValue(tpRet[Len(tpResults)]))
    /\ tpPc' = IF Len(tpResults) + 1 = NumPoolThreads THEN "done" ELSE "join"
    /\ TpOnly
    /\ UNCHANGED <<tpHandles, tpw, tpSlept, tpRet, tpFinished>>

\* println!("  Worker thread {} processing", i)
TpPrint(i) ==
    /\ tpw[i] = "print"
    /\ tpw' = [tpw EXCEPT ![i] = "sleep"]
    /\ TpOnly
    /\ UNCHANGED <<tpPc, tpHandles, tpSlept, tpRet, tpResults, tpFinished>>

\* thread::sleep(Duration::from_millis(100)), one more tick asleep
TpTick(i) ==
    /\ tpw[i] = "sleep"
    /\ tpSlept[i] < MaxDelay
    /\ tpSlept' = [tpSlept EXCEPT ![i] = @ + 1]
    /\ TpOnly
    /\ UNCHANGED <<tpPc, tpHandles, tpw, tpRet, tpResults, tpFinished>>

\* thread::sleep returns and the closure returns i * 2
TpReturn(i) ==
    /\ tpw[i] = "sleep"
    /\ tpRet' = [tpRet EXCEPT ![i] = Mul(i, 2)]
    /\ tpw' = [tpw EXCEPT ![i] = "done"]
    /\ tpFinished' = Append(tpFinished, i)
    /\ TpOnly
    /\ UNCHANGED <<tpPc, tpHandles, tpSlept, tpResults>>

TpMain == TpSpawn \/ TpJoin

TpThread(i) == TpPrint(i) \/ TpTick(i) \/ TpReturn(i)

TpNext == TpMain \/ \E i \in PoolThreads : TpThread(i)

\* ------------------------------------------------------------------------
\* mutex_basics and tests::test_mutex: write under the lock, then lock again
\* ------------------------------------------------------------------------

\* The values tried for Mutex::new and for the assignment; the example has
\* 5 and 6, the test 5 and 10.
Values == 0 .. MaxValue

MxInit ==
    /\ mxPc = "new"
    /\ mxInitial = NoValue
    /\ mxWritten = NoValue
    /\ mxValue = NoValue
    /\ mxLock = NoOne
    /\ mxRead = NoValue

\* let m = Mutex::new(v), in a program whose block assigns w
MxNew(v, w) ==
    /\ mxPc = "new"
    /\ mxInitial' = v
    /\ mxWritten' = w
    /\ mxValue' = v
    /\ mxPc' = "lock"
    /\ MxOnly
    /\ UNCHANGED <<mxLock, mxRead>>

\* let mut num = m.lock().unwrap();
MxLock ==
    /\ mxPc = "lock"
    /\ CanLock(mxLock)
    /\ mxLock' = MainThread
    /\ mxPc' = "store"
    /\ MxOnly
    /\ UNCHANGED <<mxInitial, mxWritten, mxValue, mxRead>>

\* *num = 6; / *num = 10;
MxStore ==
    /\ mxPc = "store"
    /\ mxValue' = mxWritten
    /\ mxPc' = "drop"
    /\ MxOnly
    /\ UNCHANGED <<mxInitial, mxWritten, mxLock, mxRead>>

\* the end of the block: the guard `num` is dropped
MxDrop ==
    /\ mxPc = "drop"
    /\ mxLock' = GuardDropped(mxLock)
    /\ mxPc' = "lock2"
    /\ MxOnly
    /\ UNCHANGED <<mxInitial, mxWritten, mxValue, mxRead>>

\* m.lock().unwrap() of the assert_eq!, or the lock {:?} takes to print m
MxLock2 ==
    /\ mxPc = "lock2"
    /\ CanLock(mxLock)
    /\ mxLock' = MainThread
    /\ mxPc' = "read"
    /\ MxOnly
    /\ UNCHANGED <<mxInitial, mxWritten, mxValue, mxRead>>

\* the value is read through the guard
MxRead ==
    /\ mxPc = "read"
    /\ mxRead' = mxValue
    /\ mxPc' = "drop2"
    /\ MxOnly
    /\ UNCHANGED <<mxInitial, mxWritten, mxValue, mxLock>>

\* the end of the statement: the temporary guard is dropped
MxDrop2 ==
    /\ mxPc = "drop2"
    /\ mxLock' = GuardDropped(mxLock)
    /\ mxPc' = "done"
    /\ MxOnly
    /\ UNCHANGED <<mxInitial, mxWritten, mxValue, mxRead>>

MxNext ==
    \/ \E v, w \in Values : MxNew(v, w)
    \/ MxLock \/ MxStore \/ MxDrop \/ MxLock2 \/ MxRead \/ MxDrop2

\* ------------------------------------------------------------------------
\* Specifications
\* ------------------------------------------------------------------------

\* Every example as constructed, before any of its threads is spawned.
\* The examples added last, as constructed.
LateInit == MmInit /\ TpInit /\ MxInit

Init ==
    /\ PoolInit /\ ArcInit /\ DlInit /\ ParInit
    /\ MpInit /\ FanInit /\ ScInit
    /\ LateInit

\* practical_patterns, pattern 1
SpecPool == Init /\ [][PoolNext]_vars

\* the worker loop on a channel closed beforehand
ClosedPoolInit ==
    /\ ClosedInit /\ ArcInit /\ DlInit /\ ParInit
    /\ MpInit /\ FanInit /\ ScInit
    /\ LateInit

SpecClosedPool == ClosedPoolInit /\ [][ClosedNext]_vars

\* practical_patterns, pattern 1, with a println! that may panic
SpecPoolPanic == Init /\ [][PanicNext]_vars

\* channel_multiple_producers
SpecMp == Init /\ [][MpNext]_vars

\* channel_multiple_producers, with a println! that may panic
SpecMpPanic == Init /\ [][MpPanicNext]_vars

\* practical_patterns, pattern 2
SpecFan == Init /\ [][FanNext]_vars

\* scoped_threads_concept
SpecScope == Init /\ [][ScNext]_vars

\* channel_multiple_messages
SpecMm == Init /\ [][MmNext]_vars

\* thread_pool_concept
SpecTp == Init /\ [][TpNext]_vars

\* mutex_basics and tests::test_mutex
SpecMx == Init /\ [][MxNext]_vars

\* arc_mutex, with a println! that may panic
SpecArcPanic == Init /\ [][ArcPanicNext]_vars

\* arc_mutex
SpecArc == Init /\ [][ArcNext]_vars

\* deadlock_prevention
SpecDl == Init /\ [][DlNext]_vars

\* parallel_computation
SpecPar == Init /\ [][ParNext]_vars

\* Every spawned thread is an OS thread: whenever it can keep taking a
\* step, the scheduler lets it take one.
FairSpecPool ==
    /\ SpecPool
    /\ WF_vars(PoolMain)
    /\ \A w \in Workers : WF_vars(Worker(w))

FairSpecDl ==
    /\ SpecDl
    /\ WF_vars(DlMain)
    /\ \A t \in LockThreads : WF_vars(DlThread(t))

\* ------------------------------------------------------------------------
\* Properties of the worker pool
\* ------------------------------------------------------------------------

\* The workers that hold a dequeued job they have not finished.
Holding(j) == {w \in Workers : job[w] = Ok(j)}

\* How often job j occurs in the buffer.
Buffered(j) == Cardinality({i \in 1 .. Len(chan) : chan[i] = j})

AllWorkersDone == \A w \in Workers : wpc[w] = "done"

\* C1: every job sent is, at every moment, in exactly one place: in the
\* buffer, with exactly one worker, or processed once.  No job is ever
\* processed twice, and once all workers have exited every job sent has been
\* processed exactly once, so as many jobs are processed as were sent.
C1_ExactlyOnce ==
    /\ \A j \in Jobs : processed[j] <= 1
    /\ \A j \in 1 .. sent :
           Buffered(j) + Cardinality(Holding(j)) + processed[j] = 1
    /\ \A j \in (sent + 1) .. NumJobs :
           Buffered(j) + Cardinality(Holding(j)) + processed[j] = 0
    /\ AllWorkersDone =>
           /\ sent = NumJobs
           /\ \A j \in Jobs : processed[j] = 1
           /\ Len(dequeued) = sent

C1_Witness ==
    /\ AllWorkersDone
    /\ mainPc = "done"
    /\ sent = NumJobs
    /\ backlog > 0

\* C3: a worker's recv returns Err only when the Sender is gone and the
\* buffer is empty, every job sent having been dequeued before; and dropping
\* the Sender leaves the buffer as it is.
C3_ClosedAfterBacklog ==
    /\ [](\A w \in Workers :
             job[w] = Err =>
                 /\ ~tx
                 /\ chan = <<>>
                 /\ Len(dequeued) = sent)
    /\ [][(tx /\ ~tx') => chan' = chan]_vars

C3_Witness ==
    /\ backlog > 0
    /\ \E w \in Workers : job[w] = Err

AllJoined ==
    /\ mainPc = "done"
    /\ njoined = NumWorkers
    /\ AllWorkersDone

\* C6: once the Sender is dropped, every worker eventually leaves its loop
\* and the join loop ends, all handles joined.
C6_AllWorkersJoined == (~tx) ~> AllJoined

C6_Witness == ~tx /\ AllJoined /\ rxLock = NoOne

C8_ExitOnClosed ==
    [][\A w \in Workers :
           /\ job[w] = Err =>
                  /\ job'[w] = Err
                  /\ wpc'[w] \in {"unlock", "match", "done"}
                  /\ wpc[w] = "match" => wpc'[w] \in {"match", "done"}
                  /\ rxLock # w => rxLock' # w
           /\ wpc[w] = "done" => wpc'[w] = "done" /\ job'[w] = job[w]]_vars

C8_Witness ==
    \E w, v \in Workers :
        /\ wpc[w] = "done"
        /\ job[w] = Err
        /\ wpc[v] = "process"

\* C9: the receiver lock is held only from lock() to the end of the
\* `let job` statement: its holder is inside recv or about to drop the
\* guard, never matching or processing; and while nobody is in that
\* statement a worker waiting for the lock can take it, whatever the
\* others are processing.
C9_LockOnlyForDequeue ==
    /\ \A w \in Workers :
           /\ rxLock = w => wpc[w] \in {"recv", "unlock"}
           /\ wpc[w] \in {"match", "process"} => rxLock # w
    /\ \A v \in Workers :
           (/\ wpc[v] = "lock"
            /\ \A u \in Workers : wpc[u] \notin {"recv", "unlock"})
           => ENABLED Lock(v)

C9_Witness ==
    \E w, v \in Workers :
        /\ wpc[w] = "process"
        /\ wpc[v] = "recv"
        /\ rxLock = v

\* C10: the values recv hands out, taken over all workers, are the jobs in
\* send order: the dequeue log is always a prefix of 1, 2, ..., the buffer
\* holds the rest of what was sent in order, and once all workers have
\* exited the log is exactly 1..9.
C10_FifoDequeue ==
    /\ Len(dequeued) <= sent
    /\ dequeued = SendOrder(Len(dequeued))
    /\ chan = [i \in 1 .. (sent - Len(dequeued)) |-> Len(dequeued) + i]
    /\ AllWorkersDone => dequeued = SendOrder(NumJobs)

C10_Witness ==
    /\ Len(dequeued) = NumJobs
    /\ \E w, v \in Workers :
           /\ w # v
           /\ job[w].tag = "Ok"
           /\ job[v].tag = "Ok"

\* ------------------------------------------------------------------------
\* Properties of the shared counter
\* ------------------------------------------------------------------------

\* C2: once all ten threads are joined the counter is 10, and 10 is what the
\* main thread reads.
C2_FinalCount ==
    /\ narcJoined = NumThreads => counter = NumThreads
    /\ arcPc = "done" => finalValue = NumThreads

C2_Witness == arcPc = "done" /\ narcJoined = NumThreads

\* ------------------------------------------------------------------------
\* Properties of the lock ordering example
\* ------------------------------------------------------------------------

\* A thread inside lock() on a mutex somebody holds.
Blocked(t) ==
    \/ lpc[t] = "first" /\ ~CanLock(Holder(FirstLock(t)))
    \/ lpc[t] = "second" /\ ~CanLock(Holder(SecondLock(t)))

DlFinished ==
    /\ dlPc = "done"
    /\ lock1 = NoOne
    /\ lock2 = NoOne
    /\ \A t \in LockThreads : lpc[t] = "done"

\* C4: the two threads are never both blocked; each of them eventually
\* holds lock1 and lock2 together; and the run ends with both locks
\* released and both threads joined.
C4_NoDeadlock ==
    /\ [](\E t \in LockThreads : ~Blocked(t))
    /\ \A t \in LockThreads : <>(lock1 = t /\ lock2 = t)
    /\ <>[]DlFinished

C4_Witness ==
    \E t, u \in LockThreads :
        /\ lpc[t] = "second"
        /\ lock1 = t
        /\ slept[t] = MaxDelay
        /\ lpc[u] = "first"

\* ------------------------------------------------------------------------
\* Properties of the parallel sum
\* ------------------------------------------------------------------------

\* The sum of the squares of s[1..n], one element after the other.
RECURSIVE SumSquares(_, _)
SumSquares(s, n) ==
    IF n = 0 THEN 0 ELSE Add(SumSquares(s, n - 1), Square(s[n]))

\* C5: when all tasks are joined, the total is 338350, the sum of squares of
\* 1..100 computed by one thread.
C5_SumOfSquares ==
    parPc = "done" =>
        /\ total = 338350
        /\ total = SumSquares(data, DataLen)

C5_Witness ==
    /\ parPc = "done"
    /\ nparJoined = NumChunks(DataLen, chunk_size)

\* ------------------------------------------------------------------------
\* Where the workers wait, and how the pool shuts down
\* ------------------------------------------------------------------------

\* A spawned, unfinished worker that cannot take its next step.
Stuck(w) == wpc[w] \notin {"idle", "done"} /\ ~ENABLED Worker(w)

Drained == ~tx /\ chan = <<>>

\* C15: an empty channel whose Sender is gone stays empty and closed; a
\* worker inside recv then returns at once, and what it gets is Err.
C15_ClosedForGood ==
    /\ [](Drained => \A w \in Workers : wpc[w] = "recv" => ENABLED Recv(w))
    /\ [][Drained => Drained']_vars
    /\ [][\A w \in Workers :
              (Drained /\ wpc[w] = "recv" /\ wpc'[w] # "recv")
              => job'[w] = Err]_vars

C15_Witness ==
    /\ Drained
    /\ \E w, v \in Workers :
           /\ wpc[w] = "done"
           /\ job[v] = NoJob
           /\ wpc[v] = "recv"

\* C17: while the Sender is alive no worker has got Err from recv and none
\* has left its loop; a worker inside recv on an empty buffer just waits.
C17_NoShutdownWhileOpen ==
    tx =>
        \A w \in Workers :
            /\ job[w] # Err
            /\ wpc[w] # "done"
            /\ (wpc[w] = "recv" /\ chan = <<>>) => ~ENABLED Recv(w)

C17_Witness ==
    /\ tx
    /\ sent > 0
    /\ chan = <<>>
    /\ \E w \in Workers : wpc[w] = "recv"

\* ------------------------------------------------------------------------
\* The counter under concurrent increments
\* ------------------------------------------------------------------------

\* The threads whose increment is written back.
Incremented_by == {t \in Threads : tpc[t] \in {"unlock", "done"}}

\* C18: the counter always equals the number of increments written back,
\* so with nobody in the critical section it is the number of threads that
\* have finished; a thread under the lock sees the current value, one of
\* 0..9, and at most one thread is under the lock.
C18_Linearizable ==
    /\ counter = Cardinality(Incremented_by)
    /\ counter \in 0 .. NumThreads
    /\ counterLock = NoOne =>
           counter = Cardinality({t \in Threads : tpc[t] = "done"})
    /\ \A t \in Threads :
           /\ tpc[t] = "store" => num[t] = counter /\ num[t] < NumThreads
           /\ tpc[t] \in {"load", "store", "unlock"} <=> counterLock = t

C18_Witness ==
    /\ counterLock = NoOne
    /\ counter = 3
    /\ \E t, u \in Threads : tpc[t] = "lock" /\ tpc[u] = "idle"

\* ------------------------------------------------------------------------
\* practical_patterns, pattern 1: a handler that fails
\* ------------------------------------------------------------------------

Panicked == {w \in Workers : wpc[w] = "panicked"}

C11_Isolated ==
    /\ \A w \in Panicked :
           /\ rxLock # w
           /\ job[w].tag = "Ok"
           /\ processed[job[w].num] = 0
    /\ \A j \in 1 .. sent :
           Buffered(j) + Cardinality(Holding(j)) + processed[j] = 1
    /\ \A w \in Workers \ Panicked :
           Stuck(w) =>
               \/ wpc[w] = "recv" /\ chan = <<>> /\ tx /\ rxLock = w
               \/ /\ wpc[w] = "lock"
                  /\ \E v \in Workers \ (Panicked \cup {w}) :
                         rxLock = v /\ wpc[v] \in {"recv", "unlock"}
    /\ (\A w \in Workers : wpc[w] \in {"done", "panicked"}) /\ Panicked # Workers
           => /\ chan = <<>>
              /\ \A j \in Jobs :
                     processed[j] = IF \E w \in Panicked : job[w] = Ok(j)
                                    THEN 0 ELSE 1

\* What holds of every step of the pool when a handler may panic.
C11_PanicStep ==
    \A w \in Workers :
        /\ wpc[w] = "panicked" => wpc'[w] = "panicked" /\ job'[w] = job[w]
        /\ wpc[w] # "panicked" /\ wpc'[w] = "panicked" =>
               /\ wpc[w] = "process"
               /\ rxLock' = rxLock /\ chan' = chan /\ tx' = tx
               /\ processed' = processed /\ dequeued' = dequeued
               /\ \A v \in Workers \ {w} : wpc'[v] = wpc[v] /\ job'[v] = job[v]

Precedes(a, b, q) ==
    \A j \in 1 .. Len(q) : q[j] = b => \E i \in 1 .. (j - 1) : q[i] = a

Occurrences(v, q) == Cardinality({i \in 1 .. Len(q) : q[i] = v})

\* C13: what the receiver has received, and what it will receive next, hold
\* each producer's first message before its second and no message twice;
\* when the loop ends it has received all four messages.  No order between
\* the two producers is implied.
C13_PerProducerOrder ==
    /\ \A p \in Producers :
           /\ Precedes(vals(p)[1], vals(p)[2], received \o mpChan)
           /\ \A k \in 1 .. 2 : Occurrences(vals(p)[k], received \o mpChan) <= 1
    /\ mpPc = "done" =>
           /\ Len(received) = Take
           /\ \A p \in Producers :
                  \A k \in 1 .. 2 : Occurrences(vals(p)[k], received) = 1

C13_Witness ==
    /\ mpPc = "done"
    /\ received = <<"thread 2: hello", "thread 2: world",
                    "thread 1: hi", "thread 1: more">>

\* ------------------------------------------------------------------------
\* practical_patterns, pattern 2
\* ------------------------------------------------------------------------

\* C14: the collection does not end while a Sender, the original or a
\* clone, is alive, nor while a task has not sent yet; when it ends every
\* task has sent and dropped its clone, and the results are exactly three,
\* 0, 1 and 4 once each, in any order.
C14_OpenUntilLastSender ==
    /\ FanLive => fanPc # "done"
    /\ (\E i \in FanTasks : fpc[i] \in {"idle", "compute", "send"})
           => fanPc # "done"
    /\ fanPc = "done" =>
           /\ \A i \in FanTasks : fpc[i] = "done"
           /\ fanChan = <<>>
           /\ Len(results) = 3
           /\ \A v \in {0, 1, 4} : Occurrences(v, results) = 1

C14_Witness ==
    /\ fanPc = "done"
    /\ results = <<4, 1, 0>>

\* ------------------------------------------------------------------------
\* scoped_threads_concept
\* ------------------------------------------------------------------------

Finished(r) == rpc[r] \in {"done", "panicked"}

\* What holds in every state of the scoped threads.
C20_ScopeInv ==
    /\ scPc \notin {"spawn1", "spawn2", "wait"} => \A r \in Readers : Finished(r)
    /\ scData # InitialData =>
           /\ scData = Append(InitialData, Pushed)
           /\ \A r \in Readers : rpc[r] = "done"
    /\ \A r \in Readers :
           /\ seenLen[r] \in {-1, 5}
           /\ seen[r] = SubSeq(InitialData, 1, Len(seen[r]))
           /\ rpc[r] \notin {"idle", FirstStep(r), "len"} => seenLen[r] = 5
    /\ rpc[1] \notin {"idle", "lock", "len", "read"} => seen[1] = InitialData

\* What holds of every step of the scoped threads.
C20_ScopeStep ==
    scData' # scData =>
        /\ scPc = "push"
        /\ \A r \in Readers : rpc[r] = "done" /\ rpc'[r] = "done"

\* C20: the scope is left only when both scoped threads have finished; data
\* is changed by the push alone, which happens after both have finished, so
\* each thread saw data as it was before the scope: five elements, 1 to 5.
C20_ScopeWaits == []C20_ScopeInv /\ [][C20_ScopeStep]_vars

C20_Witness ==
    /\ scPc = "done"
    /\ scData = <<1, 2, 3, 4, 5, 6>>
    /\ seen[1] = <<1, 2, 3, 4, 5>>
    /\ seenLen[2] = 5

\* ------------------------------------------------------------------------
\* arc_mutex: a thread that panics holding the counter's Mutex
\* ------------------------------------------------------------------------

ArcPanicked == {t \in Threads : tpc[t] = "panicked"}

\* What holds in every state of arc_mutex when println! may panic.
C19_PoisonInv ==
    /\ poisoned =>
           /\ ArcPanicked # {}
           /\ counterLock = NoOne
           /\ \A t \in Threads : tpc[t] \notin {"load", "store", "unlock"}
           /\ arcPc \notin {"read", "done"}
    /\ ~poisoned => ArcPanicked = {}

\* What holds of every step of arc_mutex when println! may panic.
C19_PoisonStep ==
    /\ poisoned => poisoned' /\ counter' = counter
    /\ ~poisoned /\ poisoned' =>
           \E t \in Threads :
               /\ counterLock = t /\ counterLock' = NoOne
               /\ tpc[t] = "unlock" /\ tpc'[t] = "panicked"
    /\ \A t \in Threads :
           poisoned /\ tpc[t] = "lock" /\ tpc'[t] # "lock" =>
               /\ tpc'[t] = "panicked"
               /\ counterLock' = NoOne

\* C19: the counter's Mutex becomes poisoned exactly when a thread panics
\* while holding it, and stays poisoned.  From then on no thread holds it
\* or is inside the increment, every lock() that returns makes its thread
\* panic without taking the lock, the counter never changes again, and the
\* main thread never reads a final value.
C19_PoisonedLockFails == []C19_PoisonInv /\ [][C19_PoisonStep]_vars

C19_Witness ==
    /\ poisoned
    /\ counter = 3
    /\ Cardinality(ArcPanicked) = 4
    /\ arcPc = "panicked"

\* ------------------------------------------------------------------------
\* channel_multiple_producers: a send after the Receiver is gone
\* ------------------------------------------------------------------------

\* What holds of every send: on a channel whose Receiver is alive it
\* appends the value at the tail and the producer goes on; once the
\* Receiver is gone it leaves the buffer as it was and the producer fails.
C16_SendStep ==
    \A p \in Producers :
        ppc[p] = "send" /\ ppc'[p] # "send" =>
            IF mpRx
            THEN /\ mpChan' = Append(mpChan, vals(p)[nvals[p] + 1])
                 /\ nvals'[p] = nvals[p] + 1
                 /\ ppc'[p] = "sleep"
            ELSE /\ mpChan' = mpChan
                 /\ nvals'[p] = nvals[p]
                 /\ ppc'[p] = "panicked"

InsideLock == {w \in Workers : wpc[w] \in {"recv", "unlock"}}

\* C26: at most one worker holds the receiver lock, and it is the one
\* inside recv or dropping the guard, so at most one worker is inside recv;
\* while that worker waits in recv on an empty open channel, no other
\* worker is inside recv, and every other worker that wants a job is stuck
\* in lock().
C26_MutualExclusion ==
    /\ Cardinality(InsideLock) <= 1
    /\ \A w \in Workers : w \in InsideLock <=> rxLock = w
    /\ \A w \in Workers :
           wpc[w] = "recv" /\ chan = <<>> /\ tx =>
               \A v \in Workers \ {w} :
                   /\ wpc[v] \in {"idle", "lock", "match", "process"}
                   /\ wpc[v] = "lock" => ~ENABLED Lock(v)

C26_Witness ==
    /\ tx
    /\ chan = <<>>
    /\ \E w \in Workers :
           /\ wpc[w] = "recv"
           /\ \A v \in Workers \ {w} : wpc[v] = "lock"

\* The jobs dequeued and not yet processed.
InFlight == {j \in Jobs : Holding(j) # {}}

\* C27: the jobs dequeued and not yet processed are never more than the
\* workers, 3 of the 9; each of them is with exactly one worker, and they
\* are exactly the dequeued jobs that no worker has finished.
C27_BoundedInFlight ==
    /\ Cardinality(InFlight) <= NumWorkers
    /\ \A j \in InFlight : Cardinality(Holding(j)) = 1
    /\ Len(dequeued) - Cardinality({j \in Jobs : processed[j] > 0})
           = Cardinality(InFlight)

C27_Witness ==
    /\ Cardinality(InFlight) = NumWorkers
    /\ Len(chan) >= 2
    /\ \A w \in Workers : wpc[w] = "process"

\* ------------------------------------------------------------------------
\* deadlock_prevention: who holds what
\* ------------------------------------------------------------------------

\* Thread t is waiting for a lock that thread u holds.
WaitsFor(t, u) ==
    \/ lpc[t] = "first" /\ Holder(FirstLock(t)) = u
    \/ lpc[t] = "second" /\ Holder(SecondLock(t)) = u

\* C29: whoever holds lock2 holds lock1 too; a thread waiting for its
\* first lock holds no lock; and no thread waits for itself or for a thread
\* that waits for it.
C29_Lock2UnderLock1 ==
    /\ lock2 # NoOne => lock2 = lock1
    /\ \A t \in LockThreads :
           lpc[t] = "first" => lock1 # t /\ lock2 # t
    /\ \A t, u \in LockThreads : ~(WaitsFor(t, u) /\ WaitsFor(u, t))

C29_Witness ==
    /\ lock1 = 1
    /\ lock2 = 1
    /\ lpc[2] = "first"
    /\ WaitsFor(2, 1)

\* ------------------------------------------------------------------------
\* parallel_computation: the chunks, the fold and the range of the sums
\* ------------------------------------------------------------------------

\* The chunks handed out so far that cover position i of data.
Covering(i) == {k \in 1 .. nchunks : chunk[k].first <= i /\ i <= chunk[k].last}

\* No task has summed anything yet.
NothingSummed == \A k \in Tasks : pos[k] = 0

\* C24: the chunks handed out are consecutive and disjoint, each of 1 to
\* chunk_size elements, and cover a prefix of data exactly once (counted
\* element by element while no task has summed anything; the chunks do not
\* change afterwards); when the spawning is over they are the four chunks
\* 1..25, 26..50, 51..75 and 76..100, one running or finished task each;
\* and no result is collected before all four are launched.
C24_ChunksPartition ==
    /\ \A k \in 1 .. nchunks :
           /\ chunk[k].first = IF k = 1 THEN 1 ELSE chunk[k - 1].last + 1
           /\ ChunkLen(chunk[k]) \in 1 .. chunk_size
           /\ cpc[k] # "idle"
    /\ \A k \in Tasks \ (1 .. nchunks) : cpc[k] = "idle"
    /\ NothingSummed =>
           \A i \in 1 .. DataLen :
               Cardinality(Covering(i)) =
                   IF nchunks > 0 /\ i <= chunk[nchunks].last THEN 1 ELSE 0
    /\ parPc # "spawn" =>
           /\ nchunks = 4
           /\ \A k \in 1 .. 4 :
                  chunk[k] = [first |-> 25 * (k - 1) + 1, last |-> 25 * k]
    /\ nparJoined > 0 => parPc # "spawn"

C24_Witness ==
    /\ parPc = "join"
    /\ nparJoined = 0
    /\ \A k \in Tasks : cpc[k] = "run" /\ pos[k] = 0
    /\ chunk[4] = [first |-> 76, last |-> 100]

\* 1*1 + 2*2 + ... + n*n over the integers.
Pyramid(n) == (n * (n + 1) * (2 * n + 1)) \div 6

\* C25: the running total depends only on how many handles have been
\* joined, and each finished task's result only on its chunk, whatever the
\* other tasks are doing: every run folds the same partial sums, each
\* once, and ends with the same total.
C25_Deterministic ==
    /\ total = IF nparJoined = 0 THEN 0 ELSE Pyramid(chunk[nparJoined].last)
    /\ \A k \in Tasks :
           cpc[k] = "done" =>
               acc[k] = Pyramid(chunk[k].last) - Pyramid(chunk[k].first - 1)
    /\ nparJoined <= nchunks

C25_Witness ==
    /\ nparJoined = 1
    /\ cpc[4] = "done"
    /\ cpc[3] = "done"
    /\ cpc[2] = "run" /\ pos[2] = 0

\* C30: every square about to be taken, every partial sum, with the square
\* about to be added to it, and every step of the final addition stays
\* within 0 .. i32::MAX, and every partial sum the wrapping operations have
\* produced is what the integers give, as is the final total.
C30_NoOverflow ==
    /\ \A k \in 1 .. nchunks :
           /\ acc[k] \in 0 .. I32Max
           /\ acc[k] = Pyramid(chunk[k].first + pos[k] - 1)
                           - Pyramid(chunk[k].first - 1)
           /\ cpc[k] = "run" /\ pos[k] < ChunkLen(chunk[k]) =>
                  LET x == ChunkAt(chunk[k], pos[k])
                  IN  /\ x <= I32Max \div x
                      /\ acc[k] <= I32Max - x * x
    /\ total \in 0 .. I32Max
    /\ parPc = "join" /\ cpc[nparJoined + 1] = "done" =>
           total <= I32Max - acc[nparJoined + 1]
    /\ parPc = "done" => total = Pyramid(DataLen)

C30_Witness ==
    /\ \E k \in Tasks :
           /\ cpc[k] = "run"
           /\ chunk[k].last = DataLen
           /\ pos[k] = ChunkLen(chunk[k]) - 1
           /\ acc[k] > 0
    /\ nparJoined = 3

\* ------------------------------------------------------------------------
\* practical_patterns, pattern 1: the sends of the main thread
\* ------------------------------------------------------------------------

\* The workers whose closure is running: each owns an Arc to the receiver.
LiveWorkers == {w \in Workers : wpc[w] \notin {"idle", "done", "panicked"}}

\* What holds in every state of the pool when a handler may panic.
C28_ReceiverKept ==
    /\ rxRefs = 1 + Cardinality(LiveWorkers)
    /\ rxRefs >= 1
    /\ mainPc = "send" => ENABLED Send
    /\ mainPc = "panicked" =>
           /\ sent = NumJobs
           /\ ~tx
           /\ Panicked # {}

\* What holds of every step taken while the main thread is sending.
C28_SendStep ==
    mainPc = "send" =>
        \/ sent' = sent /\ mainPc' = "send" /\ Len(chan') <= Len(chan)
        \/ /\ sent' = sent + 1
           /\ chan' = Append(chan, sent + 1)
           /\ mainPc' \in {"send", "drop"}

\* C28: the receiver is alive in every state, held by the main thread and
\* by each running worker, so each of the nine sends succeeds and the main
\* thread never panics in the send loop, whether the workers are still
\* running or have all ended early; it can panic only later, in join.
C28_SendNeverFails == []C28_ReceiverKept /\ [][C28_SendStep]_vars

C28_Witness ==
    /\ Panicked = Workers
    /\ rxRefs = 1
    /\ mainPc = "drop"
    /\ sent = NumJobs
    /\ Len(chan) = NumJobs - NumWorkers

\* ------------------------------------------------------------------------
\* channel_multiple_messages
\* ------------------------------------------------------------------------

\* C21: what has been received, followed by what is buffered, is exactly
\* what has been sent, in the order sent: every value arrives unchanged,
\* once, in send order.  The loop does not end while the Sender is alive,
\* and when it ends it has received hi, from, the, thread.
C21_SentIsReceived ==
    /\ mmReceived \o mmChan = SubSeq(messages, 1, mmSent)
    /\ mmTx => mmPc # "done"
    /\ mmPc = "done" =>
           /\ mmReceived = messages
           /\ mmChan = <<>>
           /\ mmPpc = "done"

C21_Witness ==
    /\ mmPc = "done"
    /\ mmReceived = <<"hi", "from", "the", "thread">>
    /\ ~mmTx

\* ------------------------------------------------------------------------
\* thread_pool_concept
\* ------------------------------------------------------------------------

\* C22: each value collected is the one the joined thread returned, i * 2,
\* taken only after that thread has finished, so the results are in spawn
\* order whatever order the threads finish in, and end as 0, 2, 4, 6.
C22_JoinInSpawnOrder ==
    /\ \A k \in 1 .. Len(tpResults) :
           /\ tpw[k - 1] = "done"
           /\ tpResults[k] = tpRet[k - 1]
           /\ tpResults[k] = 2 * (k - 1)
    /\ tpPc = "done" => tpResults = <<0, 2, 4, 6>>

C22_Witness ==
    /\ tpPc = "done"
    /\ tpFinished = <<3, 2, 1, 0>>
    /\ tpResults = <<0, 2, 4, 6>>

\* ------------------------------------------------------------------------
\* mutex_basics and tests::test_mutex
\* ------------------------------------------------------------------------

\* What holds in every state of the two locks on one thread.
C23_GuardInv ==
    /\ mxLock = MainThread <=> mxPc \in {"store", "drop", "read", "drop2"}
    /\ mxPc = "lock2" =>
           /\ mxValue = mxWritten
           /\ ENABLED MxLock2
    /\ mxRead # NoValue => mxRead = mxWritten
    /\ mxPc = "done" => mxRead = mxWritten /\ mxLock = NoOne

\* What holds of every step: the value inside a Mutex changes only under
\* its lock.
C23_GuardStep ==
    mxPc # "new" /\ mxValue' # mxValue => mxLock = MainThread

\* C23: the value written under the lock is the value the next lock reads;
\* the lock is free again once the guard's block has ended, so the second
\* lock on the same thread is acquired without waiting.
C23_WriteThenRead == []C23_GuardInv /\ [][C23_GuardStep]_vars

C23_Witness ==
    /\ mxPc = "done"
    /\ mxInitial = 5
    /\ mxWritten = 10
    /\ mxRead = 10


====
